---- MODULE Spec2Model ----
(***************************************************************************)
(* Model of the probe orchestration engine of columbo: the control loop    *)
(* debug_loop, the probe invoker execute_probe with its argument parser,   *)
(* sanitizer, validator and dependency resolver, the container cache and   *)
(* the signature used by the dedup gate.                                   *)
(*                                                                         *)
(* The Reasoner (hypothesis_gen, probe_planner, evidence_digest,           *)
(* stop_decider, final_diagnosis), the container engine and the probe      *)
(* bodies are external: each of their calls either returns one of a small  *)
(* set of values or raises.                                                *)
(*                                                                         *)
(* Spec is a session of debug_loop.  UnitSpec calls one function directly  *)
(* (sanitize_probe_args, compute_signature, resolve_probe_dependencies,    *)
(* execute_probe, resolve_container) on an input drawn from a bounded set. *)
(*                                                                         *)
(* Values are encoded as tuples of strings with a type tag in front:       *)
(*   <<"s", text>>  a string,   <<"i", digits>>  an integer,               *)
(*   <<"l", t1, ..., tn>>  a list of file entries, given by their types,   *)
(*   <<"raw", text>>  an unparsed token of a key=value argument text,      *)
(*   <<"d", dict>>  a nested dict.                                         *)
(* A dict is a sequence of <<key, value>> pairs with distinct keys, in     *)
(* insertion order, as a Python dict is.                                   *)
(***************************************************************************)
EXTENDS Integers, Sequences, FiniteSets, TLC

\* Largest step budget (max_steps) a session is created with.
MaxSteps == 3

(***************************************************************************)
(* Dicts                                                                   *)
(***************************************************************************)
EmptyDict == << >>

Keys(d) == {d[i][1] : i \in DOMAIN d}

Has(d, k) == k \in Keys(d)

Get(d, k, default) ==
    IF Has(d, k) THEN d[CHOOSE i \in DOMAIN d : d[i][1] = k][2] ELSE default

Put(d, k, v) ==
    IF Has(d, k)
    THEN [i \in DOMAIN d |-> IF d[i][1] = k THEN <<k, v>> ELSE d[i]]
    ELSE Append(d, <<k, v>>)

Pop(d, k) == SelectSeq(d, LAMBDA p : p[1] # k)

RECURSIVE FromPairs(_)
FromPairs(ps) ==
    IF ps = << >> THEN EmptyDict
    ELSE LET n == Len(ps)
         IN  Put(FromPairs(SubSeq(ps, 1, n - 1)), ps[n][1], ps[n][2])

\* Python truthiness of a value; NoneVal stands for an absent value.
NoneVal == <<"none">>

Truthy(v) == v \notin {NoneVal, <<"s", "">>, <<"i", "0">>, <<"l">>}

(***************************************************************************)
(* parse_probe_args: the literal argument text of a plan to a dict.        *)
(* An argument text is [fmt, pairs]:                                       *)
(*   fmt = "json"     a JSON object with these members, in this order      *)
(*   fmt = "json_other"  valid JSON that is not an object (pairs empty)    *)
(*   fmt = "kv"       not JSON: "k1=v1, k2=v2", values are raw tokens      *)
(*   fmt = "garbage"  not JSON and without any "=" (pairs empty)           *)
(***************************************************************************)
IntTokens == {"0", "50", "100"}

ConvertToken(v) ==
    IF v[1] = "raw"
    THEN IF v[2] \in IntTokens THEN <<"i", v[2]>> ELSE <<"s", v[2]>>
    ELSE v

parse_probe_args(text) ==
    CASE text.fmt = "json"  -> FromPairs(text.pairs)
      [] text.fmt = "kv"    ->
            FromPairs([i \in DOMAIN text.pairs |->
                          <<text.pairs[i][1], ConvertToken(text.pairs[i][2])>>])
      [] OTHER              -> EmptyDict

(***************************************************************************)
(* ProbeCall.compute_signature: the probe name and the arguments dumped    *)
(* with sorted keys.  The SHA-256 prefix is taken as injective, so the     *)
(* signature is the hashed text itself.                                    *)
(***************************************************************************)
\* Every argument key of the model, in the order of sorted().
SortedKeys ==
    << "bogus", "cmd", "command", "container", "container_name", "file_path",
       "found_files", "host", "hostname", "max_depth", "port", "root_path",
       "tail", "tail_lines", "timeout", "timeout_s", "url", "volume_name" >>

\* json.dumps(..., sort_keys=True): the members of d from the i-th sorted
\* key on, nested dicts dumped the same way.
RECURSIVE DumpSorted(_, _)
RECURSIVE DumpInsertionOrder(_, _)
DumpInsertionOrder(d, i) ==
    IF i > Len(d) THEN << >>
    ELSE << <<d[i][1],
              IF d[i][2][1] = "d"
              THEN <<"d", DumpInsertionOrder(d[i][2][2], 1)>>
              ELSE d[i][2]>> >> \o DumpInsertionOrder(d, i + 1)

DumpSorted(d, i) ==
    IF i > Len(SortedKeys) THEN << >>
    ELSE (IF Has(d, SortedKeys[i])
          THEN LET v == Get(d, SortedKeys[i], NoneVal)
               IN  << <<SortedKeys[i],
                        IF v[1] = "d" THEN <<"d", DumpSorted(v[2], 1)>>
                        ELSE v>> >>
          ELSE << >>) \o DumpSorted(d, i + 1)

\* A signature that leaves the arguments out.
SignatureOfNameOnly(probe_name, probe_args) == <<probe_name, << >> >>

compute_signature(probe_name, probe_args) ==
    <<probe_name, DumpSorted(probe_args, 1)>>

(***************************************************************************)
(* The probe catalog: probe_registry, PROBE_SCHEMAS, PROBE_DEPENDENCIES.   *)
(***************************************************************************)
probe_registry ==
    { "containers_state", "container_logs", "container_exec",
      "containers_ports", "container_inspect", "dns_resolution",
      "tcp_connection", "http_connection", "config_files_detection",
      "env_files_parsing", "docker_compose_parsing", "generic_config_parsing",
      "list_volumes", "volume_metadata", "container_mounts",
      "volume_data_inspection", "volume_file_read" }

\* PROBES: the names the @probe decorator registers when the probe modules
\* are imported.
PROBES ==
    { "containers_state", "container_logs", "container_exec",
      "container_mounts", "containers_ports", "container_inspect",
      "inspect_container_runtime_uid", "dns_resolution", "tcp_connection",
      "http_connection", "list_volumes", "volume_metadata",
      "volume_data_inspection", "volume_file_read",
      "inspect_volume_file_permissions" }

\* PROBE_SCHEMAS[name]["args"].keys(); empty for a name without a schema.
SchemaArgs(name) ==
    CASE name \in {"container_inspect", "container_mounts"} -> {"container"}
      [] name = "container_logs"  -> {"container", "tail"}
      [] name = "container_exec"  -> {"container", "command", "tail_chars"}
      [] name = "dns_resolution"  -> {"hostname"}
      [] name = "tcp_connection"  -> {"host", "port", "timeout"}
      [] name = "http_connection" -> {"url", "timeout"}
      [] name = "config_files_detection" -> {"root_path", "max_depth"}
      [] name \in {"env_files_parsing", "docker_compose_parsing",
                   "generic_config_parsing"} -> {"found_files"}
      [] name = "volume_metadata" -> {"volume_name"}
      [] name = "volume_data_inspection" ->
              {"volume_name", "sample_path", "max_items"}
      [] name = "volume_file_read" -> {"volume_name", "file_path", "max_bytes"}
      [] OTHER -> {}

\* PROBE_SCHEMAS[name]["required_args"]
get_required_args(name) ==
    CASE name \in {"container_inspect", "container_logs", "container_mounts"}
              -> {"container"}
      [] name = "container_exec"  -> {"container", "command"}
      [] name = "dns_resolution"  -> {"hostname"}
      [] name = "tcp_connection"  -> {"host", "port"}
      [] name = "http_connection" -> {"url"}
      [] name \in {"volume_metadata", "volume_data_inspection"}
              -> {"volume_name"}
      [] name = "volume_file_read" -> {"volume_name", "file_path"}
      [] OTHER -> {}

ConfigDerivedProbes ==
    {"env_files_parsing", "docker_compose_parsing", "generic_config_parsing"}

\* PROBE_DEPENDENCIES[name]["requires"]
RequiredProbe(name) == "config_files_detection"

\* The file type the transform of PROBE_DEPENDENCIES[name] keeps.
TransformType(name) ==
    CASE name = "docker_compose_parsing" -> "docker_compose"
      [] name = "env_files_parsing"      -> "environment_variables"
      [] OTHER                           -> "generic_config"

(***************************************************************************)
(* sanitize_probe_args and validate_probe_args                             *)
(***************************************************************************)
ARG_ALIASES(k) ==
    CASE k = "container_name" -> "container"
      [] k = "cmd"            -> "command"
      [] k = "tail_lines"     -> "tail"
      [] k = "timeout_s"      -> "timeout"
      [] OTHER                -> k

\* normalized.pop("found_files", None) for the config-derived probes
KeepDependencyArgs(probe_name, args) == args

DropDependencyArgs(probe_name, args) ==
    IF probe_name \in ConfigDerivedProbes
    THEN Pop(args, "found_files")
    ELSE args

SanitizeWithoutAliases(probe_name, args) ==
    LET allowed == SchemaArgs(probe_name)
        kept    == IF allowed # {}
                   THEN SelectSeq(args, LAMBDA p : p[1] \in allowed)
                   ELSE args
    IN  DropDependencyArgs(probe_name, kept)

sanitize_probe_args(probe_name, args) ==
    LET normalized == FromPairs([i \in DOMAIN args |->
                                   <<ARG_ALIASES(args[i][1]), args[i][2]>>])
        allowed    == SchemaArgs(probe_name)
        kept       == IF allowed # {}
                      THEN SelectSeq(normalized, LAMBDA p : p[1] \in allowed)
                      ELSE normalized
    IN  DropDependencyArgs(probe_name, kept)

\* TRUE when the arguments pass; the probes of PROBE_SCHEMAS are those of
\* probe_registry.
AlwaysValid(probe_name, args) == TRUE

validate_probe_args(probe_name, args) ==
    /\ probe_name \in probe_registry
    /\ get_required_args(probe_name) \ Keys(args) = {}

(***************************************************************************)
(* Probe results.  shape is "dict" for the mappings execute_probe builds   *)
(* itself and "ProbeResult" for what a probe body returns; error says      *)
(* whether the error key (or attribute) holds a message.                   *)
(***************************************************************************)
DictError(kind) ==
    [shape |-> "dict", kind |-> kind, error |-> TRUE, found_files |-> << >>]

ProbeResultOk(files) ==
    [shape |-> "ProbeResult", kind |-> "ok", error |-> FALSE,
     found_files |-> files]

ProbeResultFailed ==
    [shape |-> "ProbeResult", kind |-> "failed", error |-> TRUE,
     found_files |-> << >>]

\* A list-shaped output of a legacy probe.
ListResult ==
    [shape |-> "list", kind |-> "ok", error |-> FALSE, found_files |-> << >>]

\* A detection result kept as a mapping with a found_files key, the shape
\* the transforms of PROBE_DEPENDENCIES read.
DictResult(files) ==
    [shape |-> "dict", kind |-> "ok", error |-> FALSE, found_files |-> files]

\* What detect_config_files_probe can return: it catches every failure of
\* its own.
DetectedFiles == <<"docker_compose", "environment_variables", "generic_config">>

DetectOutcomes == {ProbeResultOk(DetectedFiles), ProbeResultFailed}

\* What a dispatched probe body can do.
BodyOutcomes == {"ok", "fail", "raise"}

\* What docker.from_env() and containers.list() can do.
DiscoverOutcomes ==
    { [ok |-> TRUE,  containers |-> <<"api">>],
      [ok |-> TRUE,  containers |-> << >>],
      [ok |-> FALSE, containers |-> << >>] }

(***************************************************************************)
(* ContainerCache                                                          *)
(***************************************************************************)
NewContainerCache ==
    [discovered |-> FALSE, containers |-> << >>, client |-> FALSE]

\* The except branch of discover: what a failed discovery leaves behind.
FailedDiscoveryForgotten ==
    [discovered |-> FALSE, containers |-> << >>, client |-> FALSE]

FailedDiscovery ==
    [discovered |-> TRUE, containers |-> << >>, client |-> FALSE]

\* ContainerCache.discover: d is what the engine answers if it is asked.
DiscoverWithoutMemo(cc, d) ==
    IF d.ok
    THEN [discovered |-> TRUE, containers |-> d.containers, client |-> TRUE]
    ELSE FailedDiscovery

discover(cc, d) ==
    IF cc.discovered THEN cc
    ELSE IF d.ok
         THEN [discovered |-> TRUE, containers |-> d.containers, client |-> TRUE]
         ELSE FailedDiscovery

(***************************************************************************)
(* resolve_probe_dependencies.  det is what the prerequisite probe returns *)
(* if it is auto-executed.  The cache is updated in place, so the update   *)
(* survives a failure of the transform.                                    *)
(***************************************************************************)
\* The transforms call result.get(...): only a mapping has it.
TransformRaises(result) == result.shape # "dict"

Transform(probe_name, result) ==
    << <<"found_files",
         <<"l">> \o SelectSeq(result.found_files,
                              LAMBDA t : t = TransformType(probe_name))>> >>

\* for key, value in transformed.items(): existing truthy values are kept.
RECURSIVE MergeOverwrites(_, _)
MergeOverwrites(args, transformed) ==
    IF transformed = << >> THEN args
    ELSE MergeOverwrites(Put(args, Head(transformed)[1], Head(transformed)[2]),
                         Tail(transformed))

RECURSIVE MergeInto(_, _)
MergeInto(args, transformed) ==
    IF transformed = << >> THEN args
    ELSE LET k    == Head(transformed)[1]
             v    == Head(transformed)[2]
             next == IF ~Has(args, k) \/ ~Truthy(Get(args, k, NoneVal))
                     THEN Put(args, k, v)
                     ELSE args
         IN  MergeInto(next, Tail(transformed))

\* A resolver that runs the prerequisite probe whatever the cache holds.
ResolveWithoutCache(probe_name, args, cache, det) ==
    IF probe_name \notin ConfigDerivedProbes
    THEN [raised |-> FALSE, args |-> args, cache |-> cache, auto |-> 0]
    ELSE LET required_probe == RequiredProbe(probe_name)
             cache2 == (required_probe :> det) @@ cache
             cached_result == cache2[required_probe]
         IN  IF TransformRaises(cached_result)
             THEN [raised |-> TRUE, args |-> args, cache |-> cache2,
                   auto |-> 1]
             ELSE [raised |-> FALSE,
                   args   |-> MergeInto(args,
                                        Transform(probe_name, cached_result)),
                   cache  |-> cache2, auto |-> 1]

resolve_probe_dependencies(probe_name, args, cache, det) ==
    IF probe_name \notin ConfigDerivedProbes
    THEN [raised |-> FALSE, args |-> args, cache |-> cache, auto |-> 0]
    ELSE LET required_probe == RequiredProbe(probe_name)
             missing  == required_probe \notin DOMAIN cache
             cache2   == IF missing THEN (required_probe :> det) @@ cache
                         ELSE cache
             auto     == IF missing THEN 1 ELSE 0
             cached_result == cache2[required_probe]
         IN  IF TransformRaises(cached_result)
             THEN [raised |-> TRUE, args |-> args, cache |-> cache2,
                   auto |-> auto]
             ELSE [raised |-> FALSE,
                   args   |-> MergeInto(args,
                                        Transform(probe_name, cached_result)),
                   cache  |-> cache2, auto |-> auto]

(***************************************************************************)
(* execute_probe.  d, det and b are the answers of the engine, of the      *)
(* prerequisite probe and of the dispatched probe body, used only where    *)
(* the code asks for them.  The outcome tells whether an exception left    *)
(* execute_probe, the returned result, both caches, and how many probe     *)
(* bodies ran and engine connections were made.                            *)
(***************************************************************************)
InventoryProbes == {"containers_state", "containers_ports"}

ContainerProbes ==
    {"container_inspect", "container_logs", "container_exec",
     "container_mounts"}

\* The result of calling the probe function inside the try block;
\* detect_config_files_probe catches every failure of its own.
BodyResult(probe_name, args, det, b) ==
    IF probe_name = "config_files_detection" THEN det
    ELSE IF b = "raise" THEN DictError("exception")
    ELSE IF b = "fail" THEN ProbeResultFailed
    ELSE IF probe_name \in ConfigDerivedProbes
         THEN ProbeResultOk(Tail(Get(args, "found_files", <<"l">>)))
    ELSE ProbeResultOk(<< >>)

\* The try block of execute_probe: [result, ccache, body, engine, files].
\* looked says whether discover() was called: it asks the engine when the
\* cache is not yet discovered.  files is the file list handed to a parsing
\* probe.
Dispatch(probe_name, args, cc, d, det, b) ==
    LET cc2       == discover(cc, d)
        after(looked) == IF looked THEN cc2 ELSE cc
        asked(looked) == IF looked /\ ~cc.discovered THEN 1 ELSE 0
        ran(looked) ==
            [result |-> BodyResult(probe_name, args, det, b),
             ccache |-> after(looked), body |-> 1, engine |-> asked(looked),
             files  |-> IF probe_name \in ConfigDerivedProbes
                        THEN Get(args, "found_files", <<"l">>)
                        ELSE NoneVal]
        failed(kind, looked) ==
            [result |-> DictError(kind), ccache |-> after(looked), body |-> 0,
             engine |-> asked(looked), files |-> NoneVal]
        container_name ==
            IF Truthy(Get(args, "container", NoneVal))
            THEN Get(args, "container", NoneVal)
            ELSE Get(args, "container_name", NoneVal)
        found     == \E i \in DOMAIN cc2.containers :
                        container_name = <<"s", cc2.containers[i]>>
    IN  IF probe_name \in InventoryProbes
        THEN IF cc2.containers = << >>
             THEN failed("no_containers", TRUE)
             ELSE ran(TRUE)
        ELSE IF probe_name \in ContainerProbes
        THEN IF ~Truthy(container_name)
             THEN failed("missing_container", FALSE)
             ELSE IF probe_name = "container_exec"
                     /\ ~Truthy(Get(args, "command", NoneVal))
             THEN failed("missing_command", FALSE)
             ELSE IF cc2.containers = << >>
             THEN failed("no_containers", TRUE)
             ELSE IF ~found
             THEN failed("container_not_found", TRUE)
             ELSE ran(TRUE)
        ELSE ran(FALSE)

execute_probe(probe_name, text, cc, cache, d, det, b) ==
    IF probe_name \notin probe_registry
    THEN [raised |-> FALSE, result |-> DictError("unknown_probe"),
          cache |-> cache, ccache |-> cc, body |-> 0, auto |-> 0,
          engine |-> 0, files |-> NoneVal]
    ELSE LET parsed    == parse_probe_args(text)
             sanitized == sanitize_probe_args(probe_name, parsed)
             resolved  == resolve_probe_dependencies(probe_name, sanitized,
                                                     cache, det)
             run       == Dispatch(probe_name, resolved.args, cc, d, det, b)
         IN  IF resolved.raised
             THEN [raised |-> TRUE, result |-> DictError("escaped"),
                   cache |-> resolved.cache, ccache |-> cc,
                   body |-> resolved.auto, auto |-> resolved.auto,
                   engine |-> 0, files |-> NoneVal]
             ELSE IF ~validate_probe_args(probe_name, resolved.args)
             THEN [raised |-> FALSE, result |-> DictError("validation"),
                   cache |-> resolved.cache, ccache |-> cc,
                   body |-> resolved.auto, auto |-> resolved.auto,
                   engine |-> 0, files |-> NoneVal]
             ELSE [raised |-> FALSE, result |-> run.result,
                   cache |-> resolved.cache, ccache |-> run.ccache,
                   body |-> resolved.auto + run.body, auto |-> resolved.auto,
                   engine |-> run.engine, files |-> run.files]

(***************************************************************************)
(* What the Reasoner can plan: a probe name and a literal argument text.   *)
(***************************************************************************)
Json(pairs) == [fmt |-> "json", pairs |-> pairs]

KeyValue(pairs) == [fmt |-> "kv", pairs |-> pairs]

Garbage == [fmt |-> "garbage", pairs |-> << >>]

Plan(name, text) == [probe_name |-> name, probe_args |-> text]

\* The plan held by debug_loop: the planner's answer and the number of the
\* step it was given in (the step of the temporary ProbeCall).
Planned(p, s) ==
    [step |-> s, probe_name |-> p.probe_name, probe_args |-> p.probe_args]

NoPlan == Planned(Plan("", Garbage), 0)

LogsApiTail   == Plan("container_logs", Json(<< <<"container", <<"s", "api">>>>,
                                                <<"tail", <<"i", "50">>>> >>))

LogsTailApi   == Plan("container_logs", Json(<< <<"tail", <<"i", "50">>>>,
                                                <<"container", <<"s", "api">>>> >>))

LogsAlias     == Plan("container_logs",
                      Json(<< <<"container_name", <<"s", "api">>>>,
                              <<"tail_lines", <<"i", "50">>>> >>))

LogsNoArgs    == Plan("container_logs", Json(<< >>))

ContainersState == Plan("containers_state", Json(<< >>))

ComposeParsing  == Plan("docker_compose_parsing", Json(<< >>))

ConfigDetection == Plan("config_files_detection", Json(<< >>))

UnknownProbe    == Plan("no_such_probe", Json(<< >>))

EmptyName       == Plan("", Json(<< >>))

ExecNoCommand   == Plan("container_exec",
                        Json(<< <<"container_name", <<"s", "api">>>> >>))

DnsBogusKey     == Plan("dns_resolution", Json(<< <<"bogus", <<"s", "db">>>> >>))

LogsKeyValue    == Plan("container_logs",
                        KeyValue(<< <<"container", <<"raw", "api">>>>,
                                    <<"tail", <<"raw", "50">>>> >>))

StateGarbage    == Plan("containers_state", Garbage)

DnsHostname     == Plan("dns_resolution",
                        Json(<< <<"hostname", <<"s", "db">>>> >>))

\* A session's Reasoner picks its plans from one of these menus.
Menus ==
    { {LogsApiTail, LogsTailApi, LogsAlias},
      {UnknownProbe, EmptyName, LogsNoArgs},
      {ExecNoCommand, DnsBogusKey, DnsHostname},
      {LogsKeyValue, LogsApiTail, StateGarbage},
      {ComposeParsing, ConfigDetection, ContainersState} }

(***************************************************************************)
(* debug_loop                                                              *)
(***************************************************************************)
VARIABLES
    menu,                 \* the plans the Reasoner of this session may return
    max_steps,            \* the step budget of the session
    step,                 \* the loop variable of `for step in range(max_steps)`
    pc,                   \* where debug_loop is
    plan,                 \* the latest probe plan the planner returned
    evidence,             \* the evidence text given to the Reasoner
    evidence_log,         \* the list of notes and findings
    session,              \* the DebugSession
    container_cache,      \* the ContainerCache of the session
    probe_results_cache,  \* probe name -> last raw result
    calls,                \* how often each external call was made
    last_exec,            \* the outcome of the latest execute_probe call
    unit                  \* a direct call of one function: input and output

vars == <<menu, max_steps, step, pc, plan, evidence, evidence_log, session,
          container_cache, probe_results_cache, calls, last_exec, unit>>

\* No function has been called directly.
NoUnit == [op |-> "none"]

NoCalls ==
    [iter |-> 0, hyp |-> 0, plan |-> 0, exec |-> 0, body |-> 0, auto |-> 0,
     engine |-> 0, digest |-> 0, stop |-> 0, diag |-> 0, escaped |-> 0]

NoExec ==
    [probe_name |-> "", raised |-> FALSE, kind |-> "none", body |-> 0,
     engine |-> 0, auto |-> 0, files |-> NoneVal]

\* The evidence text: the initial problem, what the last rebuild put in
\* (steps used, number of listed probes, number of log entries) and the
\* error notes appended since.
InitialEvidence ==
    [steps_used |-> 0, probes |-> 0, findings |-> 0, notes |-> << >>]

Init ==
    /\ menu \in Menus
    /\ max_steps \in 1..MaxSteps
    /\ step = 0
    /\ pc = "hypotheses"
    /\ plan = NoPlan
    /\ evidence = InitialEvidence
    /\ evidence_log = << >>
    /\ session = [current_step |-> 0, probe_history |-> << >>,
                  should_stop |-> FALSE, stop_reason |-> "None",
                  finished_at |-> FALSE]
    /\ container_cache = NewContainerCache
    /\ probe_results_cache = [n \in {} |-> NoneVal]
    /\ calls = [NoCalls EXCEPT !.iter = 1]
    /\ last_exec = NoExec
    /\ unit = NoUnit

\* range(max_steps): is there an iteration with loop variable i?
InRangeOffByOne(i, n) == i <= n

InRange(i, n) == i < n

\* An end of iteration that resumes the loop body at the digest.
NextIterationAtDigest(c) ==
    /\ IF InRange(step + 1, max_steps)
       THEN /\ step' = step + 1
            /\ pc' = "digest"
            /\ calls' = [c EXCEPT !.iter = @ + 1]
       ELSE /\ step' = step
            /\ pc' = "diagnose"
            /\ calls' = c

\* The end of an iteration: the next one, or the code after the loop.
NextIteration(c) ==
    /\ IF InRange(step + 1, max_steps)
       THEN /\ step' = step + 1
            /\ pc' = "hypotheses"
            /\ calls' = [c EXCEPT !.iter = @ + 1]
       ELSE /\ step' = step
            /\ pc' = "diagnose"
            /\ calls' = c

\* The loop variable itself taken as the step number.
StepNumberZeroBased == step

\* The number of the running step, as shown and recorded.
StepNumber == step + 1

\* except Exception: the note goes to the evidence text, then the loop
\* goes on.
StepFailed(c) ==
    /\ evidence' = [evidence EXCEPT !.notes = Append(@, StepNumber)]
    /\ NextIteration(c)

GenerateHypotheses ==
    /\ pc = "hypotheses"
    /\ \E ok \in BOOLEAN :
          LET c == [calls EXCEPT !.hyp = @ + 1]
          IN  IF ok
              THEN /\ pc' = "plan"
                   /\ calls' = c
                   /\ UNCHANGED <<step, plan, evidence>>
              ELSE /\ StepFailed(c)
                   /\ UNCHANGED plan
    /\ UNCHANGED <<unit, menu, max_steps, evidence_log, session, container_cache,
                   probe_results_cache, last_exec>>

\* The signature of the latest ProbeCall only.
SignaturesOfLatestOnly(history) ==
    IF history = << >> THEN {} ELSE {history[Len(history)].signature}

\* DebugSession.get_executed_probe_signatures
get_executed_probe_signatures(history) ==
    {history[i].signature : i \in DOMAIN history}

NeverDuplicate(sig, history) == FALSE

IsDuplicate(sig, history) == sig \in get_executed_probe_signatures(history)

SkipNote(s, name) == [kind |-> "skip", step |-> s, probe_name |-> name]

Finding(s, name) == [kind |-> "finding", step |-> s, probe_name |-> name]

\* A dedup gate whose skip also rebuilds the evidence text.
PlanProbeSkipRebuilds ==
    /\ pc = "plan"
    /\ LET c == [calls EXCEPT !.plan = @ + 1]
       IN  \/ /\ StepFailed(c)
              /\ UNCHANGED <<plan, evidence_log>>
           \/ \E p \in menu :
                /\ plan' = Planned(p, StepNumber)
                /\ IF p.probe_name = ""
                   THEN \* ProbeCall rejects an empty probe name
                        /\ StepFailed(c)
                        /\ UNCHANGED evidence_log
                   ELSE IF IsDuplicate(
                             compute_signature(p.probe_name,
                                               parse_probe_args(p.probe_args)),
                             session.probe_history)
                   THEN /\ evidence_log' =
                             Append(evidence_log,
                                    SkipNote(StepNumber, p.probe_name))
                        /\ NextIteration(c)
                        /\ evidence' =
                             [steps_used |-> StepNumber,
                              probes     |-> Len(session.probe_history),
                              findings   |-> Len(evidence_log'),
                              notes      |-> << >>]
                   ELSE /\ pc' = "execute"
                        /\ calls' = c
                        /\ UNCHANGED <<step, evidence, evidence_log>>
    /\ UNCHANGED <<unit, menu, max_steps, session, container_cache, probe_results_cache,
                   last_exec>>

\* probe_planner, then the dedup gate on the literal plan.
PlanProbe ==
    /\ pc = "plan"
    /\ LET c == [calls EXCEPT !.plan = @ + 1]
       IN  \/ /\ StepFailed(c)
              /\ UNCHANGED <<plan, evidence_log>>
           \/ \E p \in menu :
                /\ plan' = Planned(p, StepNumber)
                /\ IF p.probe_name = ""
                   THEN \* ProbeCall rejects an empty probe name
                        /\ StepFailed(c)
                        /\ UNCHANGED evidence_log
                   ELSE IF IsDuplicate(
                             compute_signature(p.probe_name,
                                               parse_probe_args(p.probe_args)),
                             session.probe_history)
                   THEN /\ evidence_log' =
                             Append(evidence_log,
                                    SkipNote(StepNumber, p.probe_name))
                        /\ NextIteration(c)
                        /\ UNCHANGED evidence
                   ELSE /\ pc' = "execute"
                        /\ calls' = c
                        /\ UNCHANGED <<step, evidence, evidence_log>>
    /\ UNCHANGED <<unit, menu, max_steps, session, container_cache, probe_results_cache,
                   last_exec>>

\* The error field of the ProbeCall: str(result["error"]) when the result
\* is a dict with a truthy error, else None.
ProbeError(result) ==
    IF result.shape = "dict" /\ result.error THEN result.kind ELSE "None"

\* normalized_result: a list is wrapped in {"items": ...}, anything else is
\* taken as it is.
normalized_result(raw_probe_result) ==
    IF raw_probe_result.shape = "list"
    THEN [raw_probe_result EXCEPT !.shape = "dict", !.kind = "items"]
    ELSE raw_probe_result

ProbeCall(s, p, result) ==
    [step       |-> s,
     probe_name |-> p.probe_name,
     probe_args |-> parse_probe_args(p.probe_args),
     result     |-> normalized_result(result),
     error      |-> ProbeError(normalized_result(result)),
     signature  |-> compute_signature(p.probe_name,
                                      parse_probe_args(p.probe_args))]

\* ProbeCall.success
success(probe_call) == probe_call.error = "None"

\* session.current_step = step + 1
CurrentStepZeroBased(i) == i

CurrentStepOf(i) == i + 1

\* execute_probe, the result cache, the ProbeCall and the session update.
ExecuteProbe ==
    /\ pc = "execute"
    /\ \E d \in DiscoverOutcomes, det \in DetectOutcomes, b \in BodyOutcomes :
          LET r == execute_probe(plan.probe_name, plan.probe_args,
                                 container_cache, probe_results_cache,
                                 d, det, b)
              c == [calls EXCEPT !.exec = @ + 1,
                                 !.body = @ + r.body,
                                 !.auto = @ + r.auto,
                                 !.engine = @ + r.engine,
                                 !.escaped = @ + (IF r.raised THEN 1 ELSE 0)]
          IN  /\ container_cache' = r.ccache
              /\ last_exec' = [probe_name |-> plan.probe_name,
                               raised |-> r.raised, kind |-> r.result.kind,
                               body |-> r.body, engine |-> r.engine,
                               auto |-> r.auto, files |-> r.files]
              /\ IF r.raised
                 THEN /\ probe_results_cache' = r.cache
                      /\ StepFailed(c)
                      /\ UNCHANGED session
                 ELSE /\ probe_results_cache' =
                            (plan.probe_name :> r.result) @@ r.cache
                      /\ session' =
                            [session EXCEPT
                               !.probe_history =
                                   Append(@, ProbeCall(StepNumber, plan, r.result)),
                               !.current_step = CurrentStepOf(step)]
                      /\ pc' = "digest"
                      /\ calls' = c
                      /\ UNCHANGED <<step, evidence>>
    /\ UNCHANGED <<unit, menu, max_steps, plan, evidence_log>>

\* A rebuild that carries over what was appended to the previous text.
RebuildKeepingNotes(s, history, log) ==
    [steps_used |-> s, probes |-> Len(history), findings |-> Len(log),
     notes |-> evidence.notes]

\* The evidence text rebuilt from the session state.
RebuildEvidence(s, history, log) ==
    [steps_used |-> s, probes |-> Len(history), findings |-> Len(log),
     notes |-> << >>]

\* evidence_digest, the evidence log entry and the rebuild of the evidence.
DigestEvidence ==
    /\ pc = "digest"
    /\ \E ok \in BOOLEAN :
          LET c   == [calls EXCEPT !.digest = @ + 1]
              log == Append(evidence_log, Finding(StepNumber, plan.probe_name))
          IN  IF ok
              THEN /\ evidence_log' = log
                   /\ evidence' = RebuildEvidence(StepNumber,
                                                  session.probe_history, log)
                   /\ pc' = "stop"
                   /\ calls' = c
                   /\ UNCHANGED step
              ELSE /\ StepFailed(c)
                   /\ UNCHANGED evidence_log
    /\ UNCHANGED <<unit, menu, max_steps, plan, session, container_cache, probe_results_cache,
                   last_exec>>

\* should_stop = stop_decision.should_stop == "yes"
should_stop_of(answer) == answer = "yes"

\* if should_stop: break
NeverBreaks(should_stop) == FALSE

BreaksLoop(should_stop) == should_stop

\* stop_decider and the break.
DecideStop ==
    /\ pc = "stop"
    /\ \E answer \in {"yes", "no", "raise"} :
          LET c == [calls EXCEPT !.stop = @ + 1]
          IN  IF answer = "raise"
              THEN /\ StepFailed(c)
                   /\ UNCHANGED session
              ELSE /\ session' = [session EXCEPT
                                     !.should_stop = should_stop_of(answer),
                                     !.stop_reason = "reasoning"]
                   /\ IF BreaksLoop(should_stop_of(answer))
                      THEN /\ pc' = "diagnose"
                           /\ calls' = c
                           /\ UNCHANGED step
                      ELSE NextIteration(c)
                   /\ UNCHANGED evidence
    /\ UNCHANGED <<unit, menu, max_steps, plan, evidence_log, container_cache,
                   probe_results_cache, last_exec>>

\* DebugSession.is_complete
is_complete(s) == s.should_stop \/ s.current_step >= max_steps

\* final_diagnosis after the loop; an error of it leaves debug_loop.
FinalDiagnosis ==
    /\ pc = "diagnose"
    /\ \E ok \in BOOLEAN :
          /\ calls' = [calls EXCEPT !.diag = @ + 1]
          /\ IF ok
             THEN /\ session' = [session EXCEPT !.finished_at = TRUE]
                  /\ pc' = "done"
             ELSE /\ pc' = "aborted"
                  /\ UNCHANGED session
    /\ UNCHANGED <<unit, menu, max_steps, step, plan, evidence, evidence_log,
                   container_cache, probe_results_cache, last_exec>>

Next ==
    \/ GenerateHypotheses
    \/ PlanProbe
    \/ ExecuteProbe
    \/ DigestEvidence
    \/ DecideStop
    \/ FinalDiagnosis

Spec == Init /\ [][Next]_vars

(***************************************************************************)
(* resolve_container.  Names, identifiers and references are sequences of  *)
(* characters, so that startswith is computed.  live is what               *)
(* client.containers.get answers: a container, or NoContainer when it      *)
(* raises NotFound or APIError.                                            *)
(***************************************************************************)
NoContainer == [name |-> <<"-">>, id |-> << >>]

StartsWith(text, prefix) ==
    /\ Len(prefix) <= Len(text)
    /\ SubSeq(text, 1, Len(prefix)) = prefix

resolve_container(live, containers, container_ref) ==
    LET hit(c) == c.name = container_ref \/ StartsWith(c.id, container_ref)
    IN  IF \E i \in DOMAIN containers : hit(containers[i])
        THEN containers[CHOOSE i \in DOMAIN containers :
                            /\ hit(containers[i])
                            /\ \A j \in 1..(i - 1) : ~hit(containers[j])]
        ELSE live

(***************************************************************************)
(* Direct calls of single functions, one per behaviour, on inputs drawn    *)
(* from bounded sets; debug_loop is not running (pc = "idle").             *)
(***************************************************************************)
\* Largest number of members of an argument dict.
MaxArgs == 2

\* Largest number of containers of an inventory.
MaxContainers == 2

\* The dicts of at most n members built from a set of <<key, value>> pairs.
DictsOver(pairs, n) ==
    UNION { { d \in [1..m -> pairs] :
                \A i, j \in 1..m : i # j => d[i][1] # d[j][1] } : m \in 0..n }

SanitizeInputPairs ==
    { <<"container", <<"s", "api">>>>, <<"container_name", <<"s", "db">>>>,
      <<"tail_lines", <<"i", "50">>>>, <<"cmd", <<"s", "ls">>>>,
      <<"timeout_s", <<"i", "100">>>>, <<"bogus", <<"s", "x">>>>,
      <<"found_files", <<"l", "generic_config">>>> }

SanitizeProbeNames ==
    { "container_logs", "container_exec", "tcp_connection",
      "docker_compose_parsing", "containers_state", "no_such_probe" }

CallSanitize ==
    /\ unit = NoUnit
    /\ \E probe_name \in SanitizeProbeNames,
          args \in DictsOver(SanitizeInputPairs, MaxArgs) :
          unit' = [op |-> "sanitize_probe_args", probe_name |-> probe_name,
                   args |-> args,
                   out |-> sanitize_probe_args(probe_name, args)]
    /\ UNCHANGED <<menu, max_steps, step, pc, plan, evidence, evidence_log,
                   session, container_cache, probe_results_cache, calls,
                   last_exec>>

NestedPairs == { <<"host", <<"s", "db">>>>, <<"port", <<"i", "50">>>> }

SignatureInputPairs ==
    { <<"container", <<"s", "api">>>>, <<"tail", <<"i", "50">>>>,
      <<"tail", <<"i", "100">>>> }
    \cup { <<"bogus", <<"d", inner>>>> : inner \in DictsOver(NestedPairs, MaxArgs) }

CallComputeSignature ==
    /\ unit = NoUnit
    /\ \E probe_name, other_name \in {"container_logs", "container_exec"},
          args, other_args \in DictsOver(SignatureInputPairs, MaxArgs) :
          unit' = [op |-> "compute_signature",
                   probe_name |-> probe_name, args |-> args,
                   other_name |-> other_name, other_args |-> other_args,
                   out |-> compute_signature(probe_name, args),
                   other_out |-> compute_signature(other_name, other_args)]
    /\ UNCHANGED <<menu, max_steps, step, pc, plan, evidence, evidence_log,
                   session, container_cache, probe_results_cache, calls,
                   last_exec>>

ResolverInputPairs ==
    { <<"found_files", <<"l", "generic_config">>>>, <<"found_files", <<"l">>>>,
      <<"found_files", <<"s", "">>>>, <<"bogus", <<"s", "x">>>> }

\* The detection result a caller can hold in the cache.
CachedDetections ==
    { ProbeResultOk(DetectedFiles), ProbeResultFailed,
      DictResult(DetectedFiles), DictResult(<<"docker_compose">>),
      DictError("exception") }

ResolverCaches ==
    { [n \in {} |-> NoneVal] }
    \cup { [n \in {"config_files_detection"} |-> r] : r \in CachedDetections }

CallResolveDependencies ==
    /\ unit = NoUnit
    /\ \E probe_name \in ConfigDerivedProbes \cup {"container_logs"},
          args \in DictsOver(ResolverInputPairs, MaxArgs),
          cache \in ResolverCaches, det \in DetectOutcomes :
          unit' = [op |-> "resolve_probe_dependencies",
                   probe_name |-> probe_name, args |-> args, cache |-> cache,
                   out |-> resolve_probe_dependencies(probe_name, args,
                                                      cache, det)]
    /\ UNCHANGED <<menu, max_steps, step, pc, plan, evidence, evidence_log,
                   session, container_cache, probe_results_cache, calls,
                   last_exec>>

CallExecuteProbe ==
    /\ unit = NoUnit
    /\ \E probe_name \in ConfigDerivedProbes,
          args \in DictsOver(ResolverInputPairs, MaxArgs),
          cache \in ResolverCaches, det \in DetectOutcomes,
          b \in BodyOutcomes :
          unit' = [op |-> "execute_probe", probe_name |-> probe_name,
                   text |-> Json(args), cache |-> cache,
                   out |-> execute_probe(probe_name, Json(args),
                                         NewContainerCache, cache,
                                         [ok |-> FALSE, containers |-> << >>],
                                         det, b)]
    /\ UNCHANGED <<menu, max_steps, step, pc, plan, evidence, evidence_log,
                   session, container_cache, probe_results_cache, calls,
                   last_exec>>

Containers ==
    { [name |-> <<"d", "b">>, id |-> <<"a", "b", "c">>],
      [name |-> <<"a", "b">>, id |-> <<"f", "0", "0">>],
      [name |-> <<"w">>,      id |-> <<"d", "b", "1">>] }

ContainerRefs ==
    { <<"a", "b">>, <<"d", "b">>, <<"w">>, <<"f", "0">>, <<"z">>, << >> }

Inventories ==
    UNION { { inv \in [1..m -> Containers] :
                \A i, j \in 1..m : i # j => inv[i] # inv[j] }
            : m \in 0..MaxContainers }

CallResolveContainer ==
    /\ unit = NoUnit
    /\ \E containers \in Inventories, container_ref \in ContainerRefs,
          live \in {NoContainer} \cup Containers :
          unit' = [op |-> "resolve_container", containers |-> containers,
                   container_ref |-> container_ref,
                   out |-> resolve_container(live, containers, container_ref)]
    /\ UNCHANGED <<menu, max_steps, step, pc, plan, evidence, evidence_log,
                   session, container_cache, probe_results_cache, calls,
                   last_exec>>

\* The tail of invoke_with_container_resolution: what it returns for what
\* the probe function returned.
invoke_with_container_resolution(result) ==
    CASE result.shape = "ProbeResult" -> result
      [] result.shape = "dict" ->
            [result EXCEPT !.shape = "ProbeResult",
                           !.kind = IF result.error THEN "failed" ELSE "ok"]
      [] OTHER ->
            [shape |-> "ProbeResult", kind |-> "unexpected_type",
             error |-> TRUE, found_files |-> << >>]

ProbeOutputs ==
    { ProbeResultOk(<< >>), ProbeResultFailed, DictResult(DetectedFiles),
      DictError("exception"), ListResult }

CallInvokeWithContainerResolution ==
    /\ unit = NoUnit
    /\ \E result \in ProbeOutputs :
          unit' = [op |-> "invoke_with_container_resolution",
                   result |-> result,
                   out |-> invoke_with_container_resolution(result)]
    /\ UNCHANGED <<menu, max_steps, step, pc, plan, evidence, evidence_log,
                   session, container_cache, probe_results_cache, calls,
                   last_exec>>

(***************************************************************************)
(* save_session_to_file and load_session_from_file.  A dumped model is its *)
(* set of keys and the values the round trip is about; both models forbid  *)
(* extra keys (extra="forbid").                                            *)
(***************************************************************************)
DebugSessionFields ==
    { "session_id", "initial_problem", "workspace_root", "current_step",
      "max_steps", "evidence_digest", "active_hypotheses", "probe_history",
      "findings_log", "should_stop", "stop_reason", "final_root_cause",
      "started_at", "finished_at" }

\* The @computed_field properties of DebugSession.
DebugSessionComputed == {"is_complete", "steps_remaining"}

ProbeCallFields ==
    { "step", "probe_name", "probe_args", "started_at", "finished_at",
      "result", "error", "signature" }

\* The @computed_field properties of ProbeCall.
ProbeCallComputed == {"duration_seconds", "success"}

\* session.model_dump(mode='json'): fields and computed fields alike.
model_dump(s) ==
    [keys            |-> DebugSessionFields \cup DebugSessionComputed,
     session_id      |-> s.session_id,
     initial_problem |-> s.initial_problem,
     probe_history   |->
         [i \in DOMAIN s.probe_history |->
             [keys       |-> ProbeCallFields \cup ProbeCallComputed,
              probe_name |-> s.probe_history[i]]]]

\* DebugSession.model_validate(data): a key that is no field is rejected.
model_validate(data) ==
    IF /\ data.keys \subseteq DebugSessionFields
       /\ \A i \in DOMAIN data.probe_history :
             data.probe_history[i].keys \subseteq ProbeCallFields
    THEN [ok |-> TRUE,
          session |-> [session_id      |-> data.session_id,
                       initial_problem |-> data.initial_problem,
                       probe_history   |->
                           [i \in DOMAIN data.probe_history |->
                               data.probe_history[i].probe_name]]]
    ELSE [ok |-> FALSE, session |-> NoneVal]

\* Largest probe history of a saved session.
MaxHistory == 2

SavedSessions ==
    { [session_id |-> "roundtrip_test",
       initial_problem |-> "Container fails to start",
       probe_history |-> h] :
      h \in UNION { [1..m -> {"container_logs", "container_env"}]
                    : m \in 0..MaxHistory } }

\* load_session_from_file(save_session_to_file(session))
CallSaveAndLoad ==
    /\ unit = NoUnit
    /\ \E s \in SavedSessions :
          unit' = [op |-> "save_and_load", session |-> s,
                   out |-> model_validate(model_dump(s))]
    /\ UNCHANGED <<menu, max_steps, step, pc, plan, evidence, evidence_log,
                   session, container_cache, probe_results_cache, calls,
                   last_exec>>

\* test_registry_consistency: one name of either catalog looked up in both.
CallRegistryLookup ==
    /\ unit = NoUnit
    /\ \E name \in probe_registry \cup PROBES :
          unit' = [op |-> "registry_lookup", name |-> name,
                   in_probe_registry |-> name \in probe_registry,
                   in_PROBES |-> name \in PROBES]
    /\ UNCHANGED <<menu, max_steps, step, pc, plan, evidence, evidence_log,
                   session, container_cache, probe_results_cache, calls,
                   last_exec>>

UnitInit ==
    /\ menu = {}
    /\ max_steps = 1
    /\ step = 0
    /\ pc = "idle"
    /\ plan = NoPlan
    /\ evidence = InitialEvidence
    /\ evidence_log = << >>
    /\ session = [current_step |-> 0, probe_history |-> << >>,
                  should_stop |-> FALSE, stop_reason |-> "None",
                  finished_at |-> FALSE]
    /\ container_cache = NewContainerCache
    /\ probe_results_cache = [n \in {} |-> NoneVal]
    /\ calls = NoCalls
    /\ last_exec = NoExec
    /\ unit = NoUnit

UnitNext ==
    \/ CallSanitize
    \/ CallComputeSignature
    \/ CallResolveDependencies
    \/ CallExecuteProbe
    \/ CallResolveContainer
    \/ CallInvokeWithContainerResolution
    \/ CallRegistryLookup
    \/ CallSaveAndLoad

UnitSpec == UnitInit /\ [][UnitNext]_vars

(***************************************************************************)
(* Properties of the control loop and of the probe invoker                 *)
(***************************************************************************)
PostLoop == {"diagnose", "done", "aborted"}

Returned == {"done", "aborted"}

LastOf(seq) == seq[Len(seq)]

\* C1: with a Reasoner that never answers "yes", whatever it plans and
\* whatever fails, debug_loop runs exactly max_steps iterations, never one
\* more, and then requests the final diagnosis exactly once.
C1_ContinueRunsMaxSteps ==
    /\ calls.iter <= max_steps
    /\ calls.hyp <= max_steps
    /\ (pc \in PostLoop /\ ~session.should_stop) =>
           /\ calls.iter = max_steps
           /\ calls.hyp = max_steps
           /\ calls.diag = (IF pc \in Returned THEN 1 ELSE 0)
    /\ pc \notin PostLoop => calls.diag = 0

C1_Witness ==
    /\ pc = "done"
    /\ ~session.should_stop
    /\ max_steps >= 2
    /\ calls.iter = max_steps
    /\ calls.stop >= 1
    /\ calls.diag = 1

\* C2: the final diagnosis is requested exactly once per session, only
\* after the loop has exited, and every session is then marked finished.
C2_DiagnosisOnceThenFinished ==
    /\ pc \notin Returned => (calls.diag = 0 /\ ~session.finished_at)
    /\ pc \in Returned => (calls.diag = 1 /\ session.finished_at)

\* C3: once the stop decision is "yes" on iteration k the loop has exited
\* with current_step = k and should_stop set, no later iteration is begun,
\* and the only call that follows is the final diagnosis.
C3_StopExitsAtK ==
    [][ /\ session'.should_stop =>
              /\ pc' \in PostLoop
              /\ session'.current_step = step' + 1
              /\ calls'.iter = step' + 1
        /\ session.should_stop =>
              /\ calls' = [calls EXCEPT !.diag = @ + 1]
              /\ step' = step
              /\ session'.probe_history = session.probe_history
              /\ session'.current_step = session.current_step
      ]_vars

C3_Witness ==
    /\ pc = "done"
    /\ session.should_stop
    /\ session.current_step = 2
    /\ max_steps = 3
    /\ calls.hyp = 2
    /\ calls.stop = 2

\* C4: a plan whose literal signature is that of a ProbeCall of the history
\* is skipped: no probe runs, the history keeps its length, exactly one skip
\* note is added to the evidence log, and the iteration is used up.
C4_DuplicateSkipped ==
    [][ ( /\ pc = "plan"
          /\ plan'.step = step + 1
          /\ \E i \in DOMAIN session.probe_history :
                session.probe_history[i].signature =
                    compute_signature(plan'.probe_name,
                                      parse_probe_args(plan'.probe_args)) )
        => /\ session' = session
           /\ evidence_log' = Append(evidence_log,
                                     SkipNote(step + 1, plan'.probe_name))
           /\ calls'.exec = calls.exec
           /\ calls'.body = calls.body
           /\ calls'.engine = calls.engine
           /\ IF step + 1 < max_steps
              THEN step' = step + 1 /\ pc' = "hypotheses"
              ELSE pc' = "diagnose"
      ]_vars

C4_Witness ==
    /\ Len(evidence_log) = 2
    /\ LastOf(evidence_log).kind = "skip"
    /\ LastOf(evidence_log).step = 2
    /\ Len(session.probe_history) = 1
    /\ calls.exec = 1
    /\ step = 2
    /\ pc = "hypotheses"

\* C5: len(probe_history) <= current_step <= max_steps in every state.
C5_HistoryWithinBudget ==
    /\ Len(session.probe_history) <= session.current_step
    /\ session.current_step <= max_steps

C5_Witness ==
    /\ pc = "done"
    /\ Len(session.probe_history) = 2
    /\ session.current_step = 3
    /\ max_steps = 3
    /\ \E i \in DOMAIN evidence_log : evidence_log[i].kind = "skip"

\* C6: no exception ever leaves execute_probe.
C6_ExecuteProbeNeverRaises == calls.escaped = 0

\* C7: a ProbeCall whose result reports an execution error, as a mapping or
\* as a ProbeResult, has its error field set.
C7_FailedProbeRecordsError ==
    \A i \in DOMAIN session.probe_history :
        session.probe_history[i].result.error =>
            ~success(session.probe_history[i])

\* C8: an error raised by a Reasoner call, the final diagnosis included,
\* never aborts the session.
C8_ReasonerErrorNeverAborts == pc # "aborted"

\* C9: when a required argument of a registered probe is absent after
\* sanitization and dependency resolution, execute_probe returns a
\* validation error, no probe body runs and no discovery is made.
C9_MissingRequiredNotDispatched ==
    [][ ( /\ pc = "execute"
          /\ plan.probe_name \in probe_registry
          /\ \A det \in DetectOutcomes :
                LET resolved ==
                      resolve_probe_dependencies(
                          plan.probe_name,
                          sanitize_probe_args(plan.probe_name,
                                              parse_probe_args(plan.probe_args)),
                          probe_results_cache, det)
                IN  /\ ~resolved.raised
                    /\ get_required_args(plan.probe_name)
                           \ Keys(resolved.args) # {} )
        => /\ ~last_exec'.raised
           /\ last_exec'.kind = "validation"
           /\ calls'.body = calls.body
           /\ calls'.engine = calls.engine
           /\ container_cache' = container_cache
           /\ LastOf(session'.probe_history).error = "validation"
      ]_vars

C9_Witness ==
    /\ pc = "digest"
    /\ last_exec.kind = "validation"
    /\ last_exec.probe_name = "container_exec"
    /\ last_exec.body = 0
    /\ ~container_cache.discovered
    /\ LastOf(session.probe_history).error = "validation"

\* C10: a planned probe whose name is not in the registry, unless it is
\* skipped as a duplicate, is executed: a ProbeCall with the "unknown
\* probe" error is appended, current_step becomes that step, and neither a
\* discovery nor an auto-invocation is made.
C10_UnknownProbeCountsAsExecuted ==
    [][ /\ ( /\ pc = "plan"
              /\ plan'.step = step + 1
              /\ plan'.probe_name \notin probe_registry
              /\ \A i \in DOMAIN session.probe_history :
                    session.probe_history[i].signature #
                        compute_signature(plan'.probe_name,
                                          parse_probe_args(plan'.probe_args)) )
            => pc' = "execute"
        /\ (pc = "execute" /\ plan.probe_name \notin probe_registry)
            => /\ pc' = "digest"
               /\ Len(session'.probe_history) = Len(session.probe_history) + 1
               /\ LastOf(session'.probe_history).step = step + 1
               /\ LastOf(session'.probe_history).error = "unknown_probe"
               /\ session'.current_step = step + 1
               /\ container_cache' = container_cache
               /\ calls'.auto = calls.auto
               /\ calls'.engine = calls.engine
      ]_vars

\* C11: within a session the engine is asked for the container inventory
\* at most once, exactly once as soon as a probe needed it, and from then
\* on the cache keeps the snapshot of that first call whatever the engine
\* would answer now.
C11_DiscoveryOnce ==
    [][ /\ calls'.engine = (IF container_cache'.discovered THEN 1 ELSE 0)
        /\ container_cache.discovered =>
              /\ container_cache' = container_cache
              /\ calls'.engine = calls.engine
      ]_vars

C11_Witness ==
    /\ pc = "done"
    /\ calls.engine = 1
    /\ calls.body = 2
    /\ calls.auto = 0
    /\ Len(session.probe_history) = 2
    /\ \A i \in DOMAIN session.probe_history :
          /\ session.probe_history[i].probe_name
                 \in InventoryProbes \cup ContainerProbes
          /\ session.probe_history[i].result.kind \in {"ok", "failed", "exception"}

\* A call of a container-dependent probe that gets as far as the
\* inventory: its required arguments are there and name a container (and
\* a command for container_exec).
ReachesInventory(probe_name, args) ==
    \/ probe_name \in InventoryProbes
    \/ /\ probe_name \in ContainerProbes
       /\ validate_probe_args(probe_name, args)
       /\ Truthy(Get(args, "container", NoneVal))
       /\ probe_name = "container_exec" => Truthy(Get(args, "command", NoneVal))

C13_AutoInvokesDetection ==
    [][ ( /\ pc = "execute"
          /\ plan.probe_name \in ConfigDerivedProbes
          /\ RequiredProbe(plan.probe_name) \notin DOMAIN probe_results_cache )
        => /\ calls'.auto = calls.auto + 1
           /\ RequiredProbe(plan.probe_name) \in DOMAIN probe_results_cache'
           /\ last_exec'.body = 2
           /\ last_exec'.files # NoneVal
           /\ \A i \in 2..Len(last_exec'.files) :
                 last_exec'.files[i] = TransformType(plan.probe_name)
      ]_vars

\* C16: when the auto-invoked detection probe fails, its result is cached
\* all the same, the transform yields an empty file list, and the parsing
\* probe is still dispatched: the step goes on.
C16_FailedPrerequisiteNotFatal ==
    [][ ( /\ pc = "execute"
          /\ plan.probe_name \in ConfigDerivedProbes
          /\ RequiredProbe(plan.probe_name) \notin DOMAIN probe_results_cache
          /\ RequiredProbe(plan.probe_name) \in DOMAIN probe_results_cache'
          /\ probe_results_cache'[RequiredProbe(plan.probe_name)].error )
        => /\ ~last_exec'.raised
           /\ last_exec'.files = <<"l">>
           /\ last_exec'.body = 2
           /\ pc' = "digest"
      ]_vars

\* Two dicts with the same keys and, key by key, the same values at every
\* nesting level, whatever the order of their members.
RECURSIVE SameArgs(_, _)
SameArgs(d1, d2) ==
    /\ Keys(d1) = Keys(d2)
    /\ \A k \in Keys(d1) :
          LET v1 == Get(d1, k, NoneVal)
              v2 == Get(d2, k, NoneVal)
          IN  IF v1[1] = "d" /\ v2[1] = "d"
              THEN SameArgs(v1[2], v2[2])
              ELSE v1 = v2

\* C19: the dedup gate looks at the literal plan only: a plan that differs
\* from every ProbeCall of the history in its probe name or in its parsed
\* literal arguments is not skipped, also when alias normalization gives
\* it the effective arguments of an earlier call.
C19_GateUsesLiteralCall ==
    [][ ( /\ pc = "plan"
          /\ plan'.step = step + 1
          /\ plan'.probe_name # ""
          /\ \A i \in DOMAIN session.probe_history :
                \/ session.probe_history[i].probe_name # plan'.probe_name
                \/ ~SameArgs(session.probe_history[i].probe_args,
                             parse_probe_args(plan'.probe_args)) )
        => /\ pc' = "execute"
           /\ evidence_log' = evidence_log
           /\ step' = step
      ]_vars

C19_Witness ==
    \E i, j \in DOMAIN session.probe_history :
        LET a == session.probe_history[i]
            b == session.probe_history[j]
        IN  /\ i < j
            /\ a.probe_name = b.probe_name
            /\ ~SameArgs(a.probe_args, b.probe_args)
            /\ a.signature # b.signature
            /\ SameArgs(sanitize_probe_args(a.probe_name, a.probe_args),
                        sanitize_probe_args(b.probe_name, b.probe_args))
            /\ a.result.kind = "ok"
            /\ b.result.kind = "ok"

(***************************************************************************)
(* Properties of the single functions, under UnitSpec                      *)
(***************************************************************************)
Detection == "config_files_detection"

\* C14: the resolver merges with "existing wins": for the key the
\* transform produces, a truthy value of the caller is kept and an absent
\* or falsy one is replaced by the transform's; every other argument is
\* left alone, and a resolver that fails has changed no argument.
C14_ExistingWins ==
    unit.op = "resolve_probe_dependencies" =>
        LET caller == unit.args
            out    == unit.out
        IN  IF unit.probe_name \notin ConfigDerivedProbes \/ out.raised
            THEN out.args = caller
            ELSE LET transformed == Transform(unit.probe_name,
                                              out.cache[Detection])
                 IN  /\ Keys(out.args) = Keys(caller) \cup Keys(transformed)
                     /\ \A k \in Keys(caller) \ Keys(transformed) :
                           Get(out.args, k, NoneVal) = Get(caller, k, NoneVal)
                     /\ \A k \in Keys(transformed) :
                           Get(out.args, k, NoneVal) =
                              IF Has(caller, k)
                                 /\ Get(caller, k, NoneVal)
                                       \notin {<<"l">>, <<"s", "">>}
                              THEN Get(caller, k, NoneVal)
                              ELSE Get(transformed, k, NoneVal)

C14_Witness ==
    /\ unit.op = "resolve_probe_dependencies"
    /\ unit.probe_name = "docker_compose_parsing"
    /\ unit.cache = [n \in {Detection} |-> DictResult(DetectedFiles)]
    /\ Get(unit.args, "found_files", NoneVal) = <<"l", "generic_config">>
    /\ ~unit.out.raised
    /\ Get(unit.out.args, "found_files", NoneVal) = <<"l", "generic_config">>
    /\ Transform(unit.probe_name, unit.out.cache[Detection])
          = << <<"found_files", <<"l", "docker_compose">>>> >>

\* C15: for a config-derived probe the sanitizer removes a found_files
\* value of the plan, and the file list handed to the probe body is the
\* transform of the cached detection result.
C15_FileListFromResolverOnly ==
    unit.op = "execute_probe" =>
        /\ ~Has(sanitize_probe_args(unit.probe_name,
                                    parse_probe_args(unit.text)),
                "found_files")
        /\ unit.out.files # NoneVal =>
              /\ Detection \in DOMAIN unit.out.cache
              /\ unit.out.files =
                    Get(Transform(unit.probe_name, unit.out.cache[Detection]),
                        "found_files", NoneVal)

C15_Witness ==
    /\ unit.op = "execute_probe"
    /\ unit.probe_name = "docker_compose_parsing"
    /\ Get(parse_probe_args(unit.text), "found_files", NoneVal)
          = <<"l", "generic_config">>
    /\ unit.out.body = 1
    /\ unit.out.files = <<"l", "docker_compose">>

\* The alias table as the claim C17 states it.
ClaimedAliases ==
    { <<"container_name", "container">>, <<"cmd", "command">>,
      <<"tail_lines", "tail">>, <<"timeout_s", "timeout">> }

Canonical(k) ==
    IF \E p \in ClaimedAliases : p[1] = k
    THEN (CHOOSE p \in ClaimedAliases : p[1] = k)[2]
    ELSE k

\* C17: sanitize_probe_args renames every alias key to its canonical key,
\* keeps only the keys of a non-empty argument schema, keeps every key of
\* a probe with an empty schema, and keeps for each key the value given
\* last.
C17_SanitizeNormalizesAndFilters ==
    unit.op = "sanitize_probe_args" =>
        LET args    == unit.args
            out     == unit.out
            allowed == SchemaArgs(unit.probe_name)
            canon   == {Canonical(k) : k \in Keys(args)}
        IN  /\ \A p \in ClaimedAliases : ~Has(out, p[1])
            /\ allowed # {} =>
                  Keys(out) = (canon \cap allowed)
                                 \ (IF unit.probe_name \in ConfigDerivedProbes
                                    THEN {"found_files"} ELSE {})
            /\ allowed = {} => Keys(out) = canon
            /\ \A i \in DOMAIN args :
                  ( /\ Has(out, Canonical(args[i][1]))
                    /\ \A j \in DOMAIN args :
                          j > i => Canonical(args[j][1]) # Canonical(args[i][1]) )
                  => Get(out, Canonical(args[i][1]), NoneVal) = args[i][2]

C17_Witness ==
    /\ unit.op = "sanitize_probe_args"
    /\ unit.probe_name = "container_logs"
    /\ unit.args = << <<"container_name", <<"s", "db">>>>,
                      <<"tail_lines", <<"i", "50">>>> >>
    /\ unit.out = << <<"container", <<"s", "db">>>>,
                     <<"tail", <<"i", "50">>>> >>

\* C18: two calls with the same probe name and the same argument content,
\* in whatever order the keys come at each nesting level, have the same
\* signature.
C18_SignatureIgnoresKeyOrder ==
    ( /\ unit.op = "compute_signature"
      /\ unit.probe_name = unit.other_name
      /\ SameArgs(unit.args, unit.other_args) )
    => unit.out = unit.other_out

C18_Witness ==
    /\ unit.op = "compute_signature"
    /\ unit.probe_name = unit.other_name
    /\ unit.args = << <<"container", <<"s", "api">>>>,
                      <<"bogus", <<"d", << <<"host", <<"s", "db">>>>,
                                           <<"port", <<"i", "50">>>> >> >> >> >>
    /\ unit.other_args =
           << <<"bogus", <<"d", << <<"port", <<"i", "50">>>>,
                                   <<"host", <<"s", "db">>>> >> >> >>,
              <<"container", <<"s", "api">>>> >>
    /\ unit.out = unit.other_out

\* C20: when a container of the inventory has exactly the name asked for,
\* resolve_container returns that container, wherever it stands in the
\* inventory and whatever identifiers the other containers have.
C20_ExactNameWins ==
    ( /\ unit.op = "resolve_container"
      /\ \E i \in DOMAIN unit.containers :
            unit.containers[i].name = unit.container_ref )
    => unit.out.name = unit.container_ref

\* C21: every recorded result and every cached result has the one shape
\* {probe_name, success, error?, data} of a ProbeResult.
C21_OneResultShape ==
    /\ \A i \in DOMAIN session.probe_history :
          session.probe_history[i].result.shape = "ProbeResult"
    /\ \A n \in DOMAIN probe_results_cache :
          probe_results_cache[n].shape = "ProbeResult"

\* C22: a name is in probe_registry exactly when it is in PROBES.
C22_RegistriesAgree ==
    unit.op = "registry_lookup" => unit.in_probe_registry = unit.in_PROBES

\* C23: saving a session and loading the written file succeeds and gives
\* a session with the same session_id, initial_problem and probe names in
\* the same order.
C23_RoundTripPreservesSession ==
    unit.op = "save_and_load" =>
        /\ unit.out.ok
        /\ unit.out.session = unit.session

\* C24: within an iteration the calls come in the order hypotheses, probe
\* planning and dedup gate, probe execution, history append, digest,
\* evidence rebuild, stop decision; a digest and a stop decision are
\* requested only in an iteration whose probe was executed and appended to
\* the history; an iteration begins only where the previous one ended.
C24_IterationOrder ==
    [][ /\ (calls'.hyp > calls.hyp => calls.hyp = calls.iter - 1)
        /\ (calls'.plan > calls.plan =>
               /\ calls.hyp = calls.iter
               /\ calls.plan < calls.iter)
        /\ (calls'.exec > calls.exec =>
               /\ plan.step = StepNumber
               /\ ~IsDuplicate(compute_signature(
                                   plan.probe_name,
                                   parse_probe_args(plan.probe_args)),
                               session.probe_history))
        /\ (session'.probe_history # session.probe_history =>
               /\ calls'.exec = calls.exec + 1
               /\ Len(session'.probe_history) =
                     Len(session.probe_history) + 1
               /\ LastOf(session'.probe_history).step = StepNumber)
        /\ (calls'.digest > calls.digest =>
               /\ session.probe_history # << >>
               /\ LastOf(session.probe_history).step = StepNumber
               /\ LastOf(session.probe_history).probe_name = plan.probe_name)
        /\ (calls'.stop > calls.stop =>
               /\ session.probe_history # << >>
               /\ LastOf(session.probe_history).step = StepNumber
               /\ evidence_log # << >>
               /\ LastOf(evidence_log) = Finding(StepNumber, plan.probe_name)
               /\ evidence = RebuildEvidence(StepNumber,
                                             session.probe_history,
                                             evidence_log))
        /\ (calls'.iter > calls.iter =>
               /\ step' = step + 1
               /\ pc' = "hypotheses") ]_vars

\* An executed iteration, a skipped one and a second executed one, each
\* executed one with its digest and stop decision.
C24_Witness ==
    /\ pc = "diagnose"
    /\ calls.iter = 3
    /\ calls.digest = 2
    /\ calls.stop = 2
    /\ \E i \in DOMAIN evidence_log : evidence_log[i].kind = "skip"

\* C25: the evidence text given to the Reasoner after an executed step is
\* determined by the initial problem, the steps used, the probe history and
\* the evidence log alone; an error note that was appended to the previous
\* evidence text is not in it.
C25_EvidenceRebuiltFromState ==
    pc = "stop" =>
        evidence = [steps_used |-> StepNumber,
                    probes     |-> Len(session.probe_history),
                    findings   |-> Len(evidence_log),
                    notes      |-> << >>]

\* The first iteration failed at the hypotheses call, which left a note in
\* the evidence text; the second iteration executed a probe and rebuilt it.
C25_Witness ==
    /\ pc = "stop"
    /\ step = 1
    /\ calls.hyp = 2
    /\ calls.plan = 1
    /\ evidence.notes = << >>

\* C26: no two ProbeCalls of probe_history have the same signature,
\* whatever the Reasoner proposes and whichever probes fail.
C26_NoDuplicateSignatures ==
    \A i, j \in DOMAIN session.probe_history :
        session.probe_history[i].signature = session.probe_history[j].signature
            => i = j

\* Two different probe calls are recorded and a proposal that repeated one
\* of them was skipped.
C26_Witness ==
    /\ Len(session.probe_history) = 2
    /\ \E i \in DOMAIN evidence_log : evidence_log[i].kind = "skip"

\* C27: the step numbers of the ProbeCalls in probe_history are strictly
\* increasing and lie in 1..max_steps, and current_step is the step number
\* of the last ProbeCall, 0 when the history is empty; a skipped or failed
\* iteration does not advance it.
C27_StepsIncreaseAndCurrentStepIsLast ==
    /\ \A i \in DOMAIN session.probe_history :
          session.probe_history[i].step \in 1..max_steps
    /\ \A i, j \in DOMAIN session.probe_history :
          i < j => session.probe_history[i].step < session.probe_history[j].step
    /\ session.current_step =
          IF session.probe_history = << >>
          THEN 0
          ELSE LastOf(session.probe_history).step

\* Probes were recorded in iterations 1 and 2 and the third iteration, which
\* recorded none, is over.
C27_Witness ==
    /\ pc = "diagnose"
    /\ calls.iter = 3
    /\ Len(session.probe_history) = 2
    /\ session.probe_history[1].step = 1
    /\ session.probe_history[2].step = 2
    /\ session.current_step = 2
    /\ ~session.should_stop

\* C28: once debug_loop has left its loop and marked the session finished,
\* session.is_complete is true, however the loop ended.
C28_FinishedIsComplete ==
    session.finished_at => is_complete(session)

\* C29: in a session the resolver auto-invokes config_files_detection at
\* most once and never when a result for it is cached; so at most
\* max_steps + 1 probe bodies run and the engine is asked for the
\* containers at most once.
C29_PrerequisiteAtMostOnce ==
    /\ [](/\ calls.auto <= 1
          /\ calls.body <= max_steps + 1
          /\ calls.engine <= 1)
    /\ [][calls'.auto > calls.auto =>
             Detection \notin DOMAIN probe_results_cache]_vars

\* The prerequisite was auto-invoked once, and a later call of a
\* config-derived probe found its result cached and did not invoke it.
C29_Witness ==
    /\ calls.auto = 1
    /\ calls.exec >= 2
    /\ last_exec.probe_name \in ConfigDerivedProbes
    /\ last_exec.auto = 0
    /\ Detection \in DOMAIN probe_results_cache

\* C30: an iteration skipped as a duplicate changes only the evidence log:
\* the session (probe_history, current_step, should_stop, stop_reason),
\* both caches and the evidence text stay as they were, no probe body runs
\* and no digest or stop decision is requested.
C30_SkipChangesOnlyEvidenceLog ==
    [][ (/\ Len(evidence_log') = Len(evidence_log) + 1
         /\ LastOf(evidence_log').kind = "skip")
        => /\ UNCHANGED <<session, probe_results_cache, container_cache,
                          evidence>>
           /\ calls'.exec = calls.exec
           /\ calls'.body = calls.body
           /\ calls'.auto = calls.auto
           /\ calls'.engine = calls.engine
           /\ calls'.digest = calls.digest
           /\ calls'.stop = calls.stop ]_vars

\* A duplicate was skipped in a session that had recorded a probe and held
\* an error note in its evidence text; the note is still there.
C30_Witness ==
    /\ evidence_log # << >>
    /\ LastOf(evidence_log).kind = "skip"
    /\ LastOf(evidence_log).step = step
    /\ pc = "hypotheses"
    /\ Len(session.probe_history) = 1
    /\ evidence.notes # << >>

====
